---- MODULE Spec2Model ----
(***************************************************************************)
(* Library inventory manager: Book, LibraryInventory (load / save / add /   *)
(* search) and the menu handlers of the command loop, modelled from        *)
(* src/library-inventory-manager-Bhavya_Anand/__init__.py.                  *)
(*                                                                         *)
(* Strings typed by the user or stored in a record (title, author, isbn)   *)
(* are sequences of one-character strings, so that str.strip() and         *)
(* str.lower() are computed; status values are plain strings.              *)
(***************************************************************************)
EXTENDS Integers, Sequences, FiniteSets, TLC

VARIABLES pc, books, file, op, arg, result, saves, wrote, log, found, twice,
          stale

vars ==
    <<pc, books, file, op, arg, result, saves, wrote, log, found, twice, stale>>

(* ------------------------------ bounds --------------------------------- *)
\* largest number of records the inventory is grown to by add operations
MaxBooks == 2

(* ------------------------------ strings -------------------------------- *)
IsSpace(c) == c = " "

RECURSIVE LStrip(_)
LStrip(s) == IF s # <<>> /\ IsSpace(Head(s)) THEN LStrip(Tail(s)) ELSE s

RECURSIVE RStrip(_)
RStrip(s) ==
    IF s # <<>> /\ IsSpace(s[Len(s)]) THEN RStrip(SubSeq(s, 1, Len(s) - 1)) ELSE s

\* str.strip(), applied by get_valid_input to every line the user types
Strip(s) == RStrip(LStrip(s))

LowerChar(c) == CASE c = "D" -> "d" [] c = "U" -> "u" [] OTHER -> c

\* str.lower()
Lower(s) == [i \in 1..Len(s) |-> LowerChar(s[i])]

\* the Python test `t in s` on strings
Contains(s, t) ==
    \E i \in 0..(Len(s) - Len(t)) : SubSeq(s, i + 1, i + Len(t)) = t

(* ------------------------------ inputs --------------------------------- *)
\* lines the user may type at an ISBN prompt (before stripping)
RawIsbns == {<<" ">>, <<"1">>, <<"2", " ">>, <<" ", "1">>}

\* lines the user may type at a title prompt (before stripping)
RawTitles == {<<"D", "u", " ">>}

\* lines the user may type at the title prompt of a search (before stripping)
RawQueries == {<<>>, <<"d">>, <<" ", "U">>}

\* isbn values a direct caller of add_book may pass (not stripped)
ApiIsbns == {<<"1">>, <<" ", "1">>}

\* lines the user may type at an author prompt (before stripping)
RawAuthors == {<<"H">>}

\* outcome of one attempt to write the storage file: the write completes,
\* mkdir/open raises (file untouched), or the write raises after open(.., 'w')
\* has truncated the file
WriteOutcomes == {"ok", "open_failed", "write_failed"}

(* ------------------------------- Book ---------------------------------- *)
\* Book.__init__ with the default status
Book(title, author, isbn) ==
    [title |-> title, author |-> author, isbn |-> isbn, status |-> "available"]

\* variant: the status is left out of the dictionary
to_dict_NoStatus(b) ==
    [title |-> b.title, author |-> b.author, isbn |-> b.isbn]

\* Book.to_dict
to_dict(b) ==
    [title |-> b.title, author |-> b.author, isbn |-> b.isbn, status |-> b.status]

\* variant: the status is not tested
issue_Unchecked(b) == [ok |-> TRUE, book |-> [b EXCEPT !.status = "issued"]]

\* Book.issue: the returned flag and the record after the call
issue(b) ==
    IF b.status = "available"
    THEN [ok |-> TRUE, book |-> [b EXCEPT !.status = "issued"]]
    ELSE [ok |-> FALSE, book |-> b]

\* Book.return_book: the returned flag and the record after the call
return_book(b) ==
    IF b.status = "issued"
    THEN [ok |-> TRUE, book |-> [b EXCEPT !.status = "available"]]
    ELSE [ok |-> FALSE, book |-> b]

\* Book.is_available
is_available(b) == b.status = "available"

\* a status read from a JSON null: the one stored value here that is not a str
NullStatus == "<null>"

\* Book.__str__ raises AttributeError when status has no capitalize()
str_raises(b) == b.status = NullStatus

\* the records print(book) shows before __str__ raises, all of them if none does
Printed(bs) ==
    IF \E i \in 1..Len(bs) : str_raises(bs[i])
    THEN SubSeq(bs, 1, (CHOOSE i \in 1..Len(bs) :
                          /\ str_raises(bs[i])
                          /\ \A j \in 1..(i - 1) : ~str_raises(bs[j])) - 1)
    ELSE bs

PrintRaises(bs) == \E i \in 1..Len(bs) : str_raises(bs[i])

(* ------------------------------ storage -------------------------------- *)
\* The storage file is absent ("missing"), holds text json.load rejects
\* ("corrupt"), holds valid JSON that is not a list of objects ("scalar"),
\* or holds a JSON array of objects ("array", data = the objects in order).
Missing == [kind |-> "missing", data |-> <<>>]
Corrupt == [kind |-> "corrupt", data |-> <<>>]
Scalar  == [kind |-> "scalar",  data |-> <<>>]
Array(d) == [kind |-> "array", data |-> d]

RequiredKeys == {"title", "author", "isbn"}
AllKeys == {"title", "author", "isbn", "status"}

\* Book(**book_data) raises TypeError on a missing positional argument or an
\* unexpected keyword
BookFromDictFails(d) ==
    \/ ~(RequiredKeys \subseteq DOMAIN d)
    \/ ~(DOMAIN d \subseteq AllKeys)

\* Book(**book_data) when it does not raise: status defaults to "available"
BookFromDict(d) ==
    [title |-> d["title"], author |-> d["author"], isbn |-> d["isbn"],
     status |-> IF "status" \in DOMAIN d THEN d["status"] ELSE "available"]

Loaded(bs, lg) == [books |-> bs, log |-> lg, raised |-> FALSE]

\* variant: entries that cannot be reconstructed are skipped and the others
\* are kept
_load_books_Partial(f) ==
    IF f.kind = "missing" THEN Loaded(<<>>, <<"info">>)
    ELSE IF f.kind \in {"corrupt", "scalar"} THEN Loaded(<<>>, <<"error">>)
    ELSE LET good == SelectSeq(f.data, LAMBDA d : ~BookFromDictFails(d))
         IN  Loaded([i \in 1..Len(good) |-> BookFromDict(good[i])], <<"info">>)

\* variant: json.JSONDecodeError is not caught
_load_books_NoCatch(f) ==
    IF f.kind = "missing" THEN Loaded(<<>>, <<"info">>)
    ELSE IF f.kind = "corrupt"
         THEN [books |-> <<>>, log |-> <<>>, raised |-> TRUE]
    ELSE IF f.kind = "scalar" THEN Loaded(<<>>, <<"error">>)
    ELSE IF \E i \in 1..Len(f.data) : BookFromDictFails(f.data[i])
         THEN Loaded(<<>>, <<"error">>)
         ELSE Loaded([i \in 1..Len(f.data) |-> BookFromDict(f.data[i])],
                     <<"info">>)

\* variant: a missing file is reported as an error
_load_books_MissingIsError(f) ==
    IF f.kind = "missing" THEN Loaded(<<>>, <<"error">>)
    ELSE IF f.kind \in {"corrupt", "scalar"} THEN Loaded(<<>>, <<"error">>)
    ELSE IF \E i \in 1..Len(f.data) : BookFromDictFails(f.data[i])
         THEN Loaded(<<>>, <<"error">>)
         ELSE Loaded([i \in 1..Len(f.data) |-> BookFromDict(f.data[i])],
                     <<"info">>)

\* LibraryInventory._load_books: the sequence after the call, the levels
\* logged and whether an exception leaves the method, starting from
\* self.books = [] (both except clauses log at error level and reset the
\* sequence; `except Exception` lets nothing out)
_load_books(f) ==
    IF f.kind = "missing" THEN Loaded(<<>>, <<"info">>)
    ELSE IF f.kind = "corrupt" THEN Loaded(<<>>, <<"error">>)
    ELSE IF f.kind = "scalar" THEN Loaded(<<>>, <<"error">>)
    ELSE IF \E i \in 1..Len(f.data) : BookFromDictFails(f.data[i])
         THEN Loaded(<<>>, <<"error">>)
         ELSE Loaded([i \in 1..Len(f.data) |-> BookFromDict(f.data[i])],
                     <<"info">>)

\* what json.dump writes for the sequence bs
Serialize(bs) == Array([i \in 1..Len(bs) |-> to_dict(bs[i])])

\* variant: the file is opened for appending
_save_books_Append(bs, f, w) ==
    IF w = "ok"
    THEN [file |-> IF f.kind = "array"
                   THEN Array(f.data \o [i \in 1..Len(bs) |-> to_dict(bs[i])])
                   ELSE Array([i \in 1..Len(bs) |-> to_dict(bs[i])]),
          log |-> <<"info">>]
    ELSE IF w = "open_failed" THEN [file |-> f, log |-> <<"error">>]
    ELSE [file |-> Corrupt, log |-> <<"error">>]

\* variant: a failed write leaves an empty list in the file
_save_books_ResetOnFail(bs, f, w) ==
    IF w = "ok"
    THEN [file |-> Array([i \in 1..Len(bs) |-> to_dict(bs[i])]),
          log |-> <<"info">>]
    ELSE [file |-> Array(<<>>), log |-> <<"error">>]

\* LibraryInventory._save_books under write outcome w: the file after the call
\* and the level logged
_save_books(bs, f, w) ==
    IF w = "ok" THEN [file |-> Serialize(bs), log |-> <<"info">>]
    ELSE IF w = "open_failed" THEN [file |-> f, log |-> <<"error">>]
    ELSE [file |-> Corrupt, log |-> <<"error">>]

(* ------------------------------ lookups -------------------------------- *)
\* variant: the last record with that isbn wins
search_by_isbn_Last(bs, isbn) ==
    IF \E i \in 1..Len(bs) : bs[i].isbn = isbn
    THEN CHOOSE i \in 1..Len(bs) :
            /\ bs[i].isbn = isbn
            /\ \A j \in (i + 1)..Len(bs) : bs[j].isbn # isbn
    ELSE 0

\* LibraryInventory.search_by_isbn: index of the first record with that isbn,
\* 0 for None
search_by_isbn(bs, isbn) ==
    IF \E i \in 1..Len(bs) : bs[i].isbn = isbn
    THEN CHOOSE i \in 1..Len(bs) :
            /\ bs[i].isbn = isbn
            /\ \A j \in 1..(i - 1) : bs[j].isbn # isbn
    ELSE 0

\* variant: the comparison is case-sensitive
search_by_title_CaseSensitive(bs, title) ==
    SelectSeq(bs, LAMBDA b : Contains(b.title, title))

\* LibraryInventory.search_by_title: the matching records in sequence order
search_by_title(bs, title) ==
    SelectSeq(bs, LAMBDA b : Contains(Lower(b.title), Lower(title)))

(* ------------------------ LibraryInventory.add_book --------------------- *)
\* an argument of add_book: a Book, or an object of another type
NotABook == [isBook |-> FALSE, book |-> Book(<<>>, <<>>, <<>>)]
ABook(b) == [isBook |-> TRUE, book |-> b]

\* variant: the file is written before the record is appended
add_book_SaveFirst(bs, f, x, w) ==
    IF ~x.isBook
    THEN [ret |-> FALSE, books |-> bs, file |-> f, saves |-> 0,
          log |-> <<"error">>]
    ELSE IF \E i \in 1..Len(bs) : bs[i].isbn = x.book.isbn
    THEN [ret |-> FALSE, books |-> bs, file |-> f, saves |-> 0,
          log |-> <<"warning">>]
    ELSE LET s == _save_books(bs, f, w)
         IN  [ret |-> TRUE, books |-> Append(bs, x.book), file |-> s.file,
              saves |-> 1, log |-> s.log \o <<"info">>]

\* variant: the append is undone when the write fails
add_book_RollbackOnFail(bs, f, x, w) ==
    IF ~x.isBook
    THEN [ret |-> FALSE, books |-> bs, file |-> f, saves |-> 0,
          log |-> <<"error">>]
    ELSE IF \E i \in 1..Len(bs) : bs[i].isbn = x.book.isbn
    THEN [ret |-> FALSE, books |-> bs, file |-> f, saves |-> 0,
          log |-> <<"warning">>]
    ELSE LET nb == Append(bs, x.book)
             s  == _save_books(nb, f, w)
         IN  [ret |-> TRUE, books |-> IF w = "ok" THEN nb ELSE bs,
              file |-> s.file, saves |-> 1, log |-> s.log \o <<"info">>]

\* variant: the record is inserted at the front
add_book_Prepend(bs, f, x, w) ==
    IF ~x.isBook
    THEN [ret |-> FALSE, books |-> bs, file |-> f, saves |-> 0,
          log |-> <<"error">>]
    ELSE IF \E i \in 1..Len(bs) : bs[i].isbn = x.book.isbn
    THEN [ret |-> FALSE, books |-> bs, file |-> f, saves |-> 0,
          log |-> <<"warning">>]
    ELSE LET nb == <<x.book>> \o bs
             s  == _save_books(nb, f, w)
         IN  [ret |-> TRUE, books |-> nb, file |-> s.file, saves |-> 1,
              log |-> s.log \o <<"info">>]

\* variant: no test for an existing isbn
add_book_NoDupCheck(bs, f, x, w) ==
    IF ~x.isBook
    THEN [ret |-> FALSE, books |-> bs, file |-> f, saves |-> 0,
          log |-> <<"error">>]
    ELSE LET nb == Append(bs, x.book)
             s  == _save_books(nb, f, w)
         IN  [ret |-> TRUE, books |-> nb, file |-> s.file, saves |-> 1,
              log |-> s.log \o <<"info">>]

\* variant: the duplicate path saves before it returns
add_book_SaveOnDuplicate(bs, f, x, w) ==
    IF ~x.isBook
    THEN [ret |-> FALSE, books |-> bs, file |-> f, saves |-> 0,
          log |-> <<"error">>]
    ELSE IF \E i \in 1..Len(bs) : bs[i].isbn = x.book.isbn
    THEN LET s == _save_books(bs, f, w)
         IN  [ret |-> FALSE, books |-> bs, file |-> s.file, saves |-> 1,
              log |-> <<"warning">> \o s.log]
    ELSE LET nb == Append(bs, x.book)
             s  == _save_books(nb, f, w)
         IN  [ret |-> TRUE, books |-> nb, file |-> s.file, saves |-> 1,
              log |-> s.log \o <<"info">>]

\* LibraryInventory.add_book(x) under write outcome w: the returned flag, the
\* sequence and the file after the call, the number of _save_books calls and
\* the levels logged
add_book(bs, f, x, w) ==
    IF ~x.isBook
    THEN [ret |-> FALSE, books |-> bs, file |-> f, saves |-> 0,
          log |-> <<"error">>]
    ELSE IF \E i \in 1..Len(bs) : bs[i].isbn = x.book.isbn
    THEN [ret |-> FALSE, books |-> bs, file |-> f, saves |-> 0,
          log |-> <<"warning">>]
    ELSE LET nb == Append(bs, x.book)
             s  == _save_books(nb, f, w)
         IN  [ret |-> TRUE, books |-> nb, file |-> s.file, saves |-> 1,
              log |-> s.log \o <<"info">>]

(* --------------------------- initial storage --------------------------- *)
Entry(t, i, s) == [title |-> t, author |-> <<"H">>, isbn |-> i, status |-> s]

\* storage contents a run may find: no file, unparsable text, JSON that is
\* not a list, and arrays written by an earlier run or edited by hand
InitFiles ==
    { Missing, Corrupt, Scalar, Array(<<>>),
      Array(<<Entry(<<"D", "u">>, <<"1">>, "available")>>),
      Array(<<Entry(<<"D", "u">>, <<"1">>, "issued"),
              Entry(<<"d">>, <<"2">>, "available")>>),
      Array(<<Entry(<<"D", "u">>, <<"1">>, "issued"),
              Entry(<<"d">>, <<"1">>, "available")>>),
      Array(<<Entry(<<"d">>, <<"2">>, "lost")>>),
      Array(<<Entry(<<"D", "u">>, <<"1">>, "available"),
              Entry(<<"d">>, <<"2">>, NullStatus)>>),
      Array(<<[title |-> <<"d">>, author |-> <<"H">>, isbn |-> <<"2">>]>>),
      Array(<<Entry(<<"D", "u">>, <<"1">>, "available"),
              [author |-> <<"H">>, isbn |-> <<"2">>, status |-> "issued"]>>),
      Array(<<[title |-> <<"d">>, author |-> <<"H">>, isbn |-> <<"2">>,
               status |-> "available", year |-> "1965"]>>) }

(* ------------------------------- state --------------------------------- *)
\* pc     : "new" before LibraryInventory is constructed, "loop" inside the
\*          while loop of main, "done" after the exit choice
\* books  : LibraryInventory.books
\* file   : contents of the storage file
\* op, arg, result, saves, wrote, log, found : the last operation, the isbn
\*          it was given, its outcome, how many times it called _save_books,
\*          the outcome of that write ("none" without one), the levels it
\*          logged, and the records it returned or printed
\* twice  : the last two operations were both direct calls of _save_books
\*          whose write succeeded
\* stale  : in this run a persist has failed and none has succeeded since
Init ==
    /\ pc = "new"
    /\ books = <<>>
    /\ file \in InitFiles
    /\ op = "none"
    /\ arg = <<>>
    /\ result = "none"
    /\ saves = 0
    /\ wrote = "none"
    /\ log = <<>>
    /\ found = <<>>
    /\ twice = FALSE
    /\ stale = FALSE

\* stale after an operation whose write outcome was w ("none": no persist)
StaleAfter(st, w) ==
    IF w = "ok" THEN FALSE ELSE IF w = "none" THEN st ELSE TRUE

\* variant: an exception that leaves a handler ends the loop
main_except_Uncaught ==
    [pc |-> "done", log |-> <<>>]

\* main, lines 338-340: `except Exception` around the handler call logs at
\* critical level and the while loop goes on
main_except ==
    [pc |-> "loop", log |-> <<"critical">>]

\* variant: an unparsable file is replaced by an empty list during the load
Construct_Repairs ==
    /\ pc \in {"new", "done"}
    /\ books' = _load_books(file).books
    /\ log' = _load_books(file).log
    /\ file' = IF file.kind \in {"corrupt", "scalar"} THEN Array(<<>>) ELSE file
    /\ pc' = "loop"
    /\ op' = "load"
    /\ arg' = <<>>
    /\ result' = "ok"
    /\ saves' = 0
    /\ wrote' = "none"
    /\ found' = <<>>
    /\ twice' = FALSE
    /\ stale' = FALSE

\* LibraryInventory.__init__ at the start of main; a later run of the program
\* constructs again on the file the earlier run left
Construct ==
    /\ pc \in {"new", "done"}
    /\ LET l == _load_books(file)
       IN  /\ books' = l.books
           /\ log' = l.log
    /\ pc' = IF _load_books(file).raised THEN "done" ELSE "loop"
    /\ op' = "load"
    /\ twice' = FALSE
    /\ stale' = FALSE
    /\ arg' = <<>>
    /\ result' = IF _load_books(file).raised THEN "raised" ELSE "ok"
    /\ saves' = 0
    /\ wrote' = "none"
    /\ found' = <<>>
    /\ UNCHANGED file

\* a direct call inventory.add_book(x)
AddBookCall ==
    /\ pc = "loop"
    /\ Len(books) < MaxBooks
    /\ \E x \in {NotABook}
              \cup {ABook(Book(Strip(t), Strip(a), i)) :
                       t \in RawTitles, a \in RawAuthors, i \in ApiIsbns},
          w \in WriteOutcomes :
          LET r == add_book(books, file, x, w)
          IN  /\ books' = r.books
              /\ file' = r.file
              /\ saves' = r.saves
              /\ wrote' = IF r.saves = 0 THEN "none" ELSE w
              /\ log' = r.log
              /\ arg' = x.book.isbn
              /\ result' = IF r.ret THEN "ok"
                           ELSE IF x.isBook THEN "duplicate" ELSE "not_a_book"
    /\ op' = "add_book"
    /\ twice' = FALSE
    /\ found' = <<>>
    /\ stale' = StaleAfter(stale, wrote')
    /\ UNCHANGED pc

\* choice 1: add_new_book(inventory)
add_new_book ==
    /\ pc = "loop"
    /\ Len(books) < MaxBooks
    /\ \E t \in RawTitles, a \in RawAuthors, i \in RawIsbns, w \in WriteOutcomes :
          LET title == Strip(t)
              author == Strip(a)
              isbn == Strip(i)
          IN  /\ isbn # <<>>
              /\ arg' = isbn
              /\ IF search_by_isbn(books, isbn) # 0
                 THEN /\ result' = "duplicate"
                      /\ log' = <<"error">>
                      /\ saves' = 0
                      /\ wrote' = "none"
                      /\ UNCHANGED <<books, file>>
                 ELSE LET r == add_book(books, file,
                                        ABook(Book(title, author, isbn)), w)
                      IN  /\ books' = r.books
                          /\ file' = r.file
                          /\ saves' = r.saves
                          /\ wrote' = IF r.saves = 0 THEN "none" ELSE w
                          /\ log' = <<"info">> \o r.log
                          /\ result' = IF r.ret THEN "ok" ELSE "failed"
    /\ op' = "add"
    /\ twice' = FALSE
    /\ found' = <<>>
    /\ stale' = StaleAfter(stale, wrote')
    /\ UNCHANGED pc

\* choice 2: issue_book(inventory)
issue_book ==
    /\ pc = "loop"
    /\ \E raw \in RawIsbns, w \in WriteOutcomes :
          LET isbn == Strip(raw)
              i == search_by_isbn(books, isbn)
          IN  /\ arg' = isbn
              /\ IF i = 0
                 THEN /\ result' = "not_found"
                      /\ log' = <<"info", "warning">>
                      /\ saves' = 0
                      /\ wrote' = "none"
                      /\ UNCHANGED <<books, file>>
                 ELSE IF ~is_available(books[i])
                 THEN /\ result' = "already_issued"
                      /\ log' = <<"warning">>
                      /\ saves' = 0
                      /\ wrote' = "none"
                      /\ UNCHANGED <<books, file>>
                 ELSE LET r == issue(books[i])
                          nb == [books EXCEPT ![i] = r.book]
                          s == _save_books(nb, file, w)
                      IN  IF r.ok
                          THEN /\ books' = nb
                               /\ file' = s.file
                               /\ saves' = 1
                               /\ wrote' = w
                               /\ log' = s.log \o <<"info">>
                               /\ result' = "ok"
                          ELSE /\ result' = "unexpected"
                               /\ log' = <<>>
                               /\ saves' = 0
                               /\ wrote' = "none"
                               /\ UNCHANGED <<books, file>>
    /\ op' = "issue"
    /\ twice' = FALSE
    /\ found' = <<>>
    /\ stale' = StaleAfter(stale, wrote')
    /\ UNCHANGED pc

\* choice 3: return_book(inventory)
return_book_handler ==
    /\ pc = "loop"
    /\ \E raw \in RawIsbns, w \in WriteOutcomes :
          LET isbn == Strip(raw)
              i == search_by_isbn(books, isbn)
          IN  /\ arg' = isbn
              /\ IF i = 0
                 THEN /\ result' = "not_found"
                      /\ log' = <<"info", "warning">>
                      /\ saves' = 0
                      /\ wrote' = "none"
                      /\ UNCHANGED <<books, file>>
                 ELSE IF is_available(books[i])
                 THEN /\ result' = "already_available"
                      /\ log' = <<"warning">>
                      /\ saves' = 0
                      /\ wrote' = "none"
                      /\ UNCHANGED <<books, file>>
                 ELSE LET r == return_book(books[i])
                          nb == [books EXCEPT ![i] = r.book]
                          s == _save_books(nb, file, w)
                      IN  IF r.ok
                          THEN /\ books' = nb
                               /\ file' = s.file
                               /\ saves' = 1
                               /\ wrote' = w
                               /\ log' = s.log \o <<"info">>
                               /\ result' = "ok"
                          ELSE /\ result' = "unexpected"
                               /\ log' = <<>>
                               /\ saves' = 0
                               /\ wrote' = "none"
                               /\ UNCHANGED <<books, file>>
    /\ op' = "return"
    /\ twice' = FALSE
    /\ found' = <<>>
    /\ stale' = StaleAfter(stale, wrote')
    /\ UNCHANGED pc

\* a direct call inventory._save_books(), the persist operation, with no
\* mutation before it
SaveBooksCall ==
    /\ pc = "loop"
    /\ \E w \in WriteOutcomes :
          LET s == _save_books(books, file, w)
          IN  /\ file' = s.file
              /\ log' = s.log
              /\ wrote' = w
              /\ twice' = (w = "ok" /\ op = "save" /\ wrote = "ok")
              /\ stale' = StaleAfter(stale, w)
    /\ op' = "save"
    /\ arg' = <<>>
    /\ result' = "ok"
    /\ saves' = 1
    /\ found' = <<>>
    /\ UNCHANGED <<pc, books>>

\* choice 4: inventory.display_all()
display_all ==
    /\ pc = "loop"
    /\ op' = "view"
    /\ twice' = FALSE
    /\ arg' = <<>>
    /\ found' = Printed(books)
    /\ IF PrintRaises(books)
       THEN /\ result' = "raised"
            /\ log' = main_except.log
            /\ pc' = main_except.pc
       ELSE /\ result' = IF books = <<>> THEN "empty" ELSE "ok"
            /\ log' = <<>>
            /\ pc' = pc
    /\ saves' = 0
    /\ wrote' = "none"
    /\ stale' = StaleAfter(stale, wrote')
    /\ UNCHANGED <<books, file>>

\* choice 5, sub-choice 1: search_books(inventory) by title
search_books_title ==
    /\ pc = "loop"
    /\ \E raw \in RawQueries :
          LET r == search_by_title(books, Strip(raw))
          IN  /\ found' = r
              /\ arg' = Strip(raw)
              /\ IF PrintRaises(r)
                 THEN /\ result' = "raised"
                      /\ log' = main_except.log
                      /\ pc' = main_except.pc
                 ELSE /\ result' = IF r = <<>> THEN "not_found" ELSE "ok"
                      /\ log' = IF r = <<>> THEN <<"info">> ELSE <<>>
                      /\ pc' = pc
    /\ op' = "search_title"
    /\ twice' = FALSE
    /\ saves' = 0
    /\ wrote' = "none"
    /\ stale' = StaleAfter(stale, wrote')
    /\ UNCHANGED <<books, file>>

\* choice 5, sub-choice 2: search_books(inventory) by ISBN
search_books_isbn ==
    /\ pc = "loop"
    /\ \E raw \in RawIsbns :
          LET i == search_by_isbn(books, Strip(raw))
          IN  /\ found' = IF i = 0 THEN <<>> ELSE <<books[i]>>
              /\ arg' = Strip(raw)
              /\ IF i # 0 /\ str_raises(books[i])
                 THEN /\ result' = "raised"
                      /\ log' = main_except.log
                      /\ pc' = main_except.pc
                 ELSE /\ result' = IF i = 0 THEN "not_found" ELSE "ok"
                      /\ log' = IF i = 0 THEN <<"info">> ELSE <<>>
                      /\ pc' = pc
    /\ op' = "search_isbn"
    /\ twice' = FALSE
    /\ saves' = 0
    /\ wrote' = "none"
    /\ stale' = StaleAfter(stale, wrote')
    /\ UNCHANGED <<books, file>>

\* choice 6: leave the loop
Exit ==
    /\ pc = "loop"
    /\ pc' = "done"
    /\ op' = "exit"
    /\ twice' = FALSE
    /\ arg' = <<>>
    /\ result' = "ok"
    /\ found' = <<>>
    /\ log' = <<"info">>
    /\ saves' = 0
    /\ wrote' = "none"
    /\ stale' = StaleAfter(stale, wrote')
    /\ UNCHANGED <<books, file>>

Next ==
    \/ Construct
    \/ AddBookCall
    \/ add_new_book
    \/ issue_book
    \/ return_book_handler
    \/ SaveBooksCall
    \/ display_all
    \/ search_books_title
    \/ search_books_isbn
    \/ Exit

Spec == Init /\ [][Next]_vars

(* ============================== properties ============================= *)
NoDup(bs) == \A i, j \in 1..Len(bs) : i # j => bs[i].isbn # bs[j].isbn

HasIsbn(bs, isbn) == \E i \in 1..Len(bs) : bs[i].isbn = isbn

Mutating == {"add", "add_book", "issue", "return"}

C2_AddKeepsUnique ==
    [][ op' \in {"add", "add_book"} =>
          /\ NoDup(books) => NoDup(books')
          /\ \A isbn \in {books[i].isbn : i \in 1..Len(books)} :
                Cardinality({i \in 1..Len(books') : books'[i].isbn = isbn})
                  = Cardinality({i \in 1..Len(books) : books[i].isbn = isbn})
          /\ (result' # "not_a_book" /\ HasIsbn(books, arg')) =>
                (result' = "duplicate" /\ books' = books) ]_vars

C2_Witness ==
    /\ op = "add_book" /\ result = "duplicate"
    /\ HasIsbn(books, arg) /\ NoDup(books) /\ Len(books) < MaxBooks

\* C3: in every reachable state no two records of the in-memory sequence
\* share the same isbn.
C3_NoDuplicateIsbn == NoDup(books)

\* C4: in every reachable state the status of every record is "available" or
\* "issued".
C4_StatusInEnum ==
    \A i \in 1..Len(books) : books[i].status \in {"available", "issued"}

\* C5: for every record, issue() succeeds exactly when the status is
\* "available" and then sets it to "issued", return_book() succeeds exactly
\* when the status is "issued" and then sets it to "available", otherwise each
\* reports failure and changes nothing; a second issue() or a second
\* return_book() fails, and alternating calls from an available record succeed.
C5_StatusExclusivity ==
    \A i \in 1..Len(books) :
        LET b  == books[i]
            i1 == issue(b)
            r1 == return_book(b)
        IN  /\ i1.ok <=> b.status = "available"
            /\ i1.ok => i1.book = [b EXCEPT !.status = "issued"]
            /\ ~i1.ok => i1.book = b
            /\ r1.ok <=> b.status = "issued"
            /\ r1.ok => r1.book = [b EXCEPT !.status = "available"]
            /\ ~r1.ok => r1.book = b
            /\ ~issue(i1.book).ok
            /\ ~return_book(r1.book).ok
            /\ b.status = "available" =>
                  LET r2 == return_book(i1.book)
                      i3 == issue(r2.book)
                  IN  /\ r2.ok /\ r2.book = b
                      /\ i3.ok /\ return_book(i3.book).ok

C5_Witness ==
    /\ op = "issue" /\ result = "already_issued"
    /\ \E i \in 1..Len(books) : books[i].isbn = arg /\ books[i].status = "issued"
    /\ \E i \in 1..Len(books) : books[i].status = "available"

\* C6: issuing by isbn succeeds if and only if a record with that isbn exists
\* and is available, and then only that record becomes issued; returning by
\* isbn succeeds if and only if a record with that isbn exists and is issued,
\* and then only that record becomes available; nothing else changes.
C6_ByIsbn ==
    [][ /\ op' = "issue" =>
             /\ result' = "ok" <=>
                   \E i \in 1..Len(books) :
                       books[i].isbn = arg' /\ books[i].status = "available"
             /\ result' = "ok" =>
                   \E i \in 1..Len(books) :
                       /\ books[i].isbn = arg' /\ books[i].status = "available"
                       /\ books' = [books EXCEPT ![i].status = "issued"]
             /\ result' # "ok" => books' = books
        /\ op' = "return" =>
             /\ result' = "ok" <=>
                   \E i \in 1..Len(books) :
                       books[i].isbn = arg' /\ books[i].status = "issued"
             /\ result' = "ok" =>
                   \E i \in 1..Len(books) :
                       /\ books[i].isbn = arg' /\ books[i].status = "issued"
                       /\ books' = [books EXCEPT ![i].status = "available"]
             /\ result' # "ok" => books' = books ]_vars

\* C7: an add with an existing isbn, an issue or return of an unknown isbn, an
\* issue of an already issued record and a return of an already available
\* record report a failure without raising, perform no save and leave the
\* in-memory sequence and the storage contents as they were.
C7_FailureChangesNothing ==
    [][ LET Recs == {i \in 1..Len(books) : books[i].isbn = arg'}
            Dup == op' \in {"add", "add_book"} /\ result' # "not_a_book"
                     /\ Recs # {}
            Unknown == op' \in {"issue", "return"} /\ Recs = {}
            IsIssued == op' = "issue" /\ Recs # {}
                          /\ \A i \in Recs : books[i].status = "issued"
            IsAvail == op' = "return" /\ Recs # {}
                         /\ \A i \in Recs : books[i].status = "available"
        IN  /\ Dup => result' = "duplicate"
            /\ Unknown => result' = "not_found"
            /\ IsIssued => result' = "already_issued"
            /\ IsAvail => result' = "already_available"
            /\ (Dup \/ Unknown \/ IsIssued \/ IsAvail) =>
                  /\ saves' = 0 /\ wrote' = "none"
                  /\ books' = books
                  /\ file' = file ]_vars

C7_Witness ==
    /\ op = "return" /\ result = "already_available"
    /\ saves = 0 /\ file # Serialize(books)

\* C8: for the in-memory sequence of any reachable state, a successful save
\* followed by a load of the written file yields a sequence of the same
\* length whose records equal the saved ones in title, author, isbn and
\* status, in the same order.
C8_RoundTrip ==
    LET f == _save_books(books, file, "ok").file
        l == _load_books(f).books
    IN  /\ Len(l) = Len(books)
        /\ \A i \in 1..Len(books) :
              /\ l[i].title = books[i].title
              /\ l[i].author = books[i].author
              /\ l[i].isbn = books[i].isbn
              /\ l[i].status = books[i].status

C8_Witness ==
    /\ op = "load" /\ pc = "loop" /\ Len(books) = 2
    /\ \E i \in 1..Len(books) : books[i].status = "issued"
    /\ \E i \in 1..Len(books) : books[i].title = Strip(<<"D", "u", " ">>)
    /\ file = Serialize(books)

LacksAny(f, keys) ==
    \E i \in 1..Len(f.data) : ~(keys \subseteq DOMAIN f.data[i])

Unparsable == {"corrupt", "scalar"}

\* C10 (as stated): constructing on a storage file whose contents cannot be
\* parsed does not fail the constructor, yields an empty sequence and reports
\* the condition at warning level.
C10_CorruptWarns ==
    (op = "load" /\ file.kind \in Unparsable) =>
        (pc = "loop" /\ result = "ok" /\ books = <<>> /\ log = <<"warning">>)

\* C10 (amended): constructing on a storage file whose contents cannot be
\* parsed does not fail the constructor, yields an empty sequence and reports
\* the condition at error level.
C10_CorruptReportsError ==
    (op = "load" /\ file.kind \in Unparsable) =>
        (pc = "loop" /\ result = "ok" /\ books = <<>> /\ log = <<"error">>)

C10_Witness ==
    op = "load" /\ file.kind = "corrupt" /\ books = <<>> /\ pc = "loop"

Failed == {"open_failed", "write_failed"}

Adds == {"add", "add_book"}

\* C11: constructing on a storage location that does not exist does not fail
\* the constructor, yields an empty sequence, is reported at info level as an
\* expected condition, and does not create the file.
C11_MissingFileLoad ==
    [][ (op' = "load" /\ file.kind = "missing") =>
          /\ result' = "ok" /\ pc' = "loop"
          /\ books' = <<>>
          /\ log' = <<"info">>
          /\ file' = Missing ]_vars

C11_Witness ==
    /\ op = "load" /\ pc = "loop" /\ result = "ok"
    /\ file = Missing /\ books = <<>> /\ log = <<"info">>

\* the effect on the in-memory sequence of the operation of a step, whatever
\* its write did
C12_MemoryAsMutated(o, a, old, new) ==
    /\ o = "save" => new = old
    /\ o \in Adds =>
          /\ Len(new) = Len(old) + 1
          /\ SubSeq(new, 1, Len(old)) = old
          /\ new[Len(new)].isbn = a
    /\ o = "issue" =>
          \E i \in 1..Len(old) :
              old[i].isbn = a /\ new = [old EXCEPT ![i].status = "issued"]
    /\ o = "return" =>
          \E i \in 1..Len(old) :
              old[i].isbn = a /\ new = [old EXCEPT ![i].status = "available"]

\* what holds of every persist that fails, and of the next one that succeeds
C12_FailedPersist ==
    /\ wrote' \in Failed =>
          /\ result' = "ok" /\ pc' = "loop"
          /\ saves' = 1
          /\ Len(SelectSeq(log', LAMBDA l : l = "error")) = 1
          /\ C12_MemoryAsMutated(op', arg', books, books')
          /\ stale'
    /\ wrote' = "ok" => (file' = Serialize(books') /\ ~stale')

\* C12 (as stated): a persist that fails raises nothing, leaves the in-memory
\* sequence as it was before the persist and is not retried, and for the rest
\* of the run memory stays out of sync with storage until the next successful persist,
\* after which storage holds the serialization of the in-memory sequence.
C12_StaysOutOfSync ==
    [][ /\ C12_FailedPersist
        /\ (stale /\ file # Serialize(books) /\ wrote' # "ok" /\ op' # "load") =>
              file' # Serialize(books') ]_vars

\* C12 (amended): a persist that fails raises nothing, leaves the in-memory
\* sequence as it was before the persist and is not retried; for the rest of
\* the run, until the next successful persist, nothing brings the storage up to date (it changes only
\* when another failing write truncates it), and after the next successful
\* persist storage holds the serialization of the in-memory sequence.
C12_NotUpdatedUntilPersist ==
    [][ /\ C12_FailedPersist
        /\ (stale /\ wrote' # "ok" /\ op' # "load") =>
              /\ stale'
              /\ file' = file \/ (wrote' = "write_failed" /\ file' = Corrupt)
      ]_vars

C12_Witness ==
    /\ op = "issue" /\ result = "ok" /\ wrote = "open_failed" /\ stale
    /\ pc = "loop" /\ file.kind = "array" /\ file # Serialize(books)

\* C13 (as stated): the storage contents are always what the last successful
\* save wrote, or what was found at construction if none has succeeded: only
\* a successful save changes them, and a save that fails neither changes nor
\* truncates them.
C13_OnlySuccessfulSaveChangesFile ==
    [][ /\ wrote' = "ok" => file' = Serialize(books')
        /\ wrote' # "ok" => file' = file ]_vars

\* C13 (amended): a successful save leaves exactly the serialization of the
\* in-memory sequence, an operation without a save and a save that fails
\* before the file is opened leave the storage contents unchanged, and a save
\* that fails after the file has been opened for writing leaves it truncated.
C13_FileAfterEachSave ==
    [][ /\ wrote' = "ok" => file' = Serialize(books')
        /\ wrote' \in {"none", "open_failed"} => file' = file
        /\ wrote' = "write_failed" => file' = Corrupt
        /\ saves' = 0 <=> wrote' = "none" ]_vars

C13_Witness ==
    /\ op = "add" /\ wrote = "write_failed" /\ file = Corrupt
    /\ result = "ok" /\ Len(books) = 2

\* C14: two persists in a row with no mutation in between, both succeeding,
\* leave identical storage contents, and what a successful persist writes
\* depends on the in-memory sequence only, not on the previous contents.
C14_IdempotentPersist ==
    [][ /\ (op = "save" /\ wrote = "ok" /\ op' = "save" /\ wrote' = "ok") =>
              (file' = file /\ books' = books)
        /\ (op' = "save" /\ wrote' = "ok") =>
              \A f \in InitFiles :
                  _save_books(books, f, "ok").file = file' ]_vars

C14_Witness ==
    /\ twice /\ op = "save" /\ wrote = "ok"
    /\ Len(books) = 2 /\ file = Serialize(books)

\* C15: loading never writes to storage, whether the file was missing, valid
\* or unparsable; an unparsable file is replaced only by a later persist,
\* whose successful write leaves exactly the in-memory sequence.
C15_LoadDoesNotWrite ==
    [][ /\ op' = "load" => file' = file
        /\ (file.kind \in Unparsable /\ file' # file) =>
              /\ saves' = 1
              /\ wrote' \in {"ok", "write_failed"}
              /\ wrote' = "ok" => file' = Serialize(books') ]_vars

C15_Witness ==
    /\ op = "load" /\ file = Scalar /\ books = <<>> /\ log = <<"error">>
    /\ saves = 0

\* C16: after construction the in-memory sequence is append-only: no step
\* removes or reorders a record or changes the title, author or isbn of an
\* existing one, status changes only through issue and return, and a
\* successful add appends exactly one record, with status available, at the
\* end.
C16_AppendOnly ==
    [][ op' # "load" =>
          /\ Len(books') >= Len(books)
          /\ \A i \in 1..Len(books) :
                /\ books'[i].title = books[i].title
                /\ books'[i].author = books[i].author
                /\ books'[i].isbn = books[i].isbn
                /\ books'[i].status # books[i].status =>
                      op' \in {"issue", "return"}
          /\ (op' \in Adds /\ result' = "ok") <=> Len(books') = Len(books) + 1
          /\ Len(books') > Len(books) =>
                /\ Len(books') = Len(books) + 1
                /\ books'[Len(books')].status = "available"
                /\ books'[Len(books')].isbn = arg' ]_vars

C16_Witness ==
    /\ op = "add" /\ result = "ok" /\ Len(books) = 2
    /\ books[1].status = "issued" /\ books[2].isbn = arg

\* the least index whose record has that isbn
C17_First(bs, isbn) ==
    CHOOSE i \in 1..Len(bs) :
        bs[i].isbn = isbn /\ \A j \in 1..Len(bs) : bs[j].isbn = isbn => i <= j

\* C17: search by isbn returns the first record in sequence order whose isbn
\* equals the argument exactly, also when several records share it, returns
\* not-found exactly when no record has that isbn, and changes neither the
\* in-memory sequence nor the storage.
C17_SearchByIsbn ==
    [][ op' = "search_isbn" =>
          /\ books' = books /\ file' = file /\ saves' = 0
          /\ HasIsbn(books, arg') =>
                /\ found' = <<books[C17_First(books, arg')]>>
                /\ result' \in {"ok", "raised"}
                /\ search_by_isbn(books, arg') = C17_First(books, arg')
          /\ ~HasIsbn(books, arg') =>
                /\ found' = <<>>
                /\ result' = "not_found"
                /\ search_by_isbn(books, arg') = 0 ]_vars

C17_Witness ==
    /\ op = "search_isbn" /\ result = "ok" /\ Len(books) = 2
    /\ books[1].isbn = books[2].isbn /\ books[1] # books[2]
    /\ found = <<books[1]>>

\* the two characters are the same letter, case apart
C18_SameLetter(a, b) ==
    a = b \/ {a, b} = {"D", "d"} \/ {a, b} = {"U", "u"}

\* the title contains the query as a substring, case apart
C18_Matches(title, q) ==
    \E off \in 0..(Len(title) - Len(q)) :
        \A k \in 1..Len(q) : C18_SameLetter(title[off + k], q[k])

\* C18: search by title returns exactly the records whose title contains the
\* query as a substring, compared case-insensitively, in the order of the
\* in-memory sequence (every record for the empty query), and changes neither
\* the in-memory sequence nor the storage.
C18_SearchByTitle ==
    [][ op' = "search_title" =>
          LET idx == {i \in 1..Len(books) : C18_Matches(books[i].title, arg')}
              nth(k) == CHOOSE i \in idx :
                            Cardinality({j \in idx : j <= i}) = k
          IN  /\ books' = books /\ file' = file /\ saves' = 0
              /\ Len(found') = Cardinality(idx)
              /\ \A k \in 1..Len(found') : found'[k] = books[nth(k)]
              /\ arg' = <<>> => found' = books
              /\ (result' = "not_found") <=> (idx = {}) ]_vars

C18_Witness ==
    /\ op = "search_title" /\ arg = <<"U">> /\ result = "ok"
    /\ Len(books) = 2 /\ Len(found) = 1
    /\ found[1].title = <<"D", "u">>

====
